---- MODULE Spec2Model ----
(***************************************************************************)
(* Model of zakhij/duplicate_parser: src/duplicate_finder.py (the          *)
(* DuplicateFinder pipeline) and src/main.py (the command line entry).     *)
(*                                                                         *)
(* A Python str is modelled as a sequence of one-character strings, so     *)
(* that lower(), re.sub(), split(), strip() and join() are computed        *)
(* character by character as the interpreter computes them.  The alphabet  *)
(* is ASCII.  A file is a sequence of lines, each line ending in "\n" as   *)
(* file iteration yields it.                                               *)
(***************************************************************************)
EXTENDS Integers, Sequences, FiniteSets, TLC

VARIABLES
    pc,             \* position of the run: main.py:23-31 / duplicate_finder.py:47-57
    err,            \* the error that ended the run, "none" while none was raised
    inputExists,    \* args.input.exists()
    rwFile,         \* content of the removal-words file (sequence of lines)
    rwPos,          \* lines of the removal-words file consumed so far
    rwHandle,       \* handle opened by removal_words_path.open()
    removal_words,  \* self.removal_words
    inFile,         \* content of the input file (sequence of lines)
    inPos,          \* lines of the input file consumed so far
    inHandle,       \* handle opened by open(input_path, "r")
    companies,      \* the list built by _read_companies_
    duplicates,     \* the list returned by _find_duplicates_
    gen,            \* position of the lazy duplicate_pairs generator
    outFile,        \* content of the output file (sequence of lines)
    outHandle,      \* handle opened by open(self.output_path, "w")
    name,           \* argument of a direct call of _clean_name_
    cleaned,        \* its return value
    calls           \* number of direct calls of _clean_name_ made

vars == <<pc, err, inputExists, rwFile, rwPos, rwHandle, removal_words, inFile,
          inPos, inHandle, companies, duplicates, gen, outFile, outHandle,
          name, cleaned, calls>>

pipelineVars == <<pc, err, inputExists, rwFile, rwPos, rwHandle, inFile, inPos,
                  inHandle, companies, duplicates, gen, outFile, outHandle>>

cleanVars == <<name, cleaned, calls>>

(***************************************************************************)
(* Bounds.                                                                 *)
(***************************************************************************)
\* Longest input file, in lines.
MaxLines == 4
\* Longest name handed to a direct call of _clean_name_, in fragments.
MaxParts == 3

(***************************************************************************)
(* Characters: str.lower(), \w and \s on the ASCII alphabet.               *)
(***************************************************************************)
Uppers == <<"A","B","C","D","E","F","G","H","I","J","K","L","M",
            "N","O","P","Q","R","S","T","U","V","W","X","Y","Z">>

Lowers == <<"a","b","c","d","e","f","g","h","i","j","k","l","m",
            "n","o","p","q","r","s","t","u","v","w","x","y","z">>

Digits == {"0","1","2","3","4","5","6","7","8","9"}

\* \s, and the characters str.split() and str.strip() treat as whitespace.
WhiteSpace == {" ", "\t", "\n", "\r"}

\* \w
WordChars == {Uppers[i] : i \in 1..26} \cup {Lowers[i] : i \in 1..26}
                \cup Digits \cup {"_"}

lower_char(c) ==
    IF \E i \in 1..26 : Uppers[i] = c
    THEN Lowers[CHOOSE i \in 1..26 : Uppers[i] = c]
    ELSE c

\* name.lower()
str_lower(s) == [i \in 1..Len(s) |-> lower_char(s[i])]

(***************************************************************************)
(* re.sub(URL_PATTERN, "", s): the scan of re.sub, left to right, never    *)
(* looking again at what a match consumed; the alternatives of             *)
(* r"www\.|\.(?:com|org|net)" are tried in the order written.              *)
(***************************************************************************)
LitAt(s, i, lit) ==
    /\ i + Len(lit) - 1 <= Len(s)
    /\ SubSeq(s, i, i + Len(lit) - 1) = lit

\* Length of the match of URL_PATTERN that starts at i, 0 when there is none.
URL_PATTERN(s, i) ==
    IF LitAt(s, i, <<"w","w","w",".">>) THEN 4
    ELSE IF /\ LitAt(s, i, <<".">>)
            /\ \/ LitAt(s, i + 1, <<"c","o","m">>)
               \/ LitAt(s, i + 1, <<"o","r","g">>)
               \/ LitAt(s, i + 1, <<"n","e","t">>)
         THEN 4
    ELSE 0

RECURSIVE UrlScan(_, _)
UrlScan(s, i) ==
    IF i > Len(s) THEN <<>>
    ELSE LET m == URL_PATTERN(s, i)
         IN  IF m > 0 THEN UrlScan(s, i + m)
             ELSE <<s[i]>> \o UrlScan(s, i + 1)

\* Variant: each match is replaced by one space instead of being deleted.
RECURSIVE UrlScanSpace(_, _)
UrlScanSpace(s, i) ==
    IF i > Len(s) THEN <<>>
    ELSE LET m == URL_PATTERN(s, i)
         IN  IF m > 0 THEN <<" ">> \o UrlScanSpace(s, i + m)
             ELSE <<s[i]>> \o UrlScanSpace(s, i + 1)

re_sub_url_space(s) == UrlScanSpace(s, 1)

re_sub_url(s) == UrlScan(s, 1)

\* r"[^\w\s]"
PUNCTUATION_PATTERN(c) == c \notin WordChars /\ c \notin WhiteSpace

\* re.sub(PUNCTUATION_PATTERN, " ", s)
re_sub_punct(s) ==
    [i \in 1..Len(s) |-> IF PUNCTUATION_PATTERN(s[i]) THEN " " ELSE s[i]]

(***************************************************************************)
(* str.split() with no argument, str.strip() and " ".join().               *)
(***************************************************************************)
RECURSIVE SplitFrom(_, _, _)
SplitFrom(s, i, cur) ==
    IF i > Len(s) THEN (IF cur = <<>> THEN <<>> ELSE <<cur>>)
    ELSE IF s[i] \in WhiteSpace
         THEN (IF cur = <<>> THEN <<>> ELSE <<cur>>) \o SplitFrom(s, i + 1, <<>>)
         ELSE SplitFrom(s, i + 1, Append(cur, s[i]))

str_split(s) == SplitFrom(s, 1, <<>>)

RECURSIVE str_join(_, _)
str_join(sep, words) ==
    IF words = <<>> THEN <<>>
    ELSE IF Len(words) = 1 THEN words[1]
    ELSE words[1] \o sep \o str_join(sep, Tail(words))

RECURSIVE LStrip(_)
LStrip(s) ==
    IF s # <<>> /\ Head(s) \in WhiteSpace THEN LStrip(Tail(s)) ELSE s

RECURSIVE RStrip(_)
RStrip(s) ==
    IF s # <<>> /\ s[Len(s)] \in WhiteSpace
    THEN RStrip(SubSeq(s, 1, Len(s) - 1))
    ELSE s

str_strip(s) == RStrip(LStrip(s))

(***************************************************************************)
(* DuplicateFinder._clean_name_                                            *)
(***************************************************************************)
\* the generator's filter: word not in self.removal_words
KeepWord(word, words) == word \notin words

\* Variant: the words are filtered in their original case and the result
\* is lowercased last.
_clean_name_lower_last(n, words) ==
    str_lower(str_join(<<" ">>,
                       SelectSeq(str_split(re_sub_punct(re_sub_url(n))),
                                 LAMBDA word : KeepWord(word, words))))

_clean_name_(n, words) ==
    str_join(<<" ">>,
             SelectSeq(str_split(re_sub_punct(re_sub_url(str_lower(n)))),
                       LAMBDA word : KeepWord(word, words)))

(***************************************************************************)
(* Company, and the files a run may find.                                  *)
(***************************************************************************)
Company(original, clean) == [original_name |-> original, cleaned_name |-> clean]

\* Content the output file holds before the run: one line that is no pair.
PreviousOutput == << <<"o","l","d","\n">> >>

RemovalFiles ==
    { <<>>,
      << <<"i","n","c","\n">> >>,
      << <<" ","I","n","c"," ","\n">>, <<"a","\n">>, <<"\n">> >> }

LineChoices ==
    { <<"A"," ","I","n","c","\n">>,
      <<" ","a"," ","\n">>,
      <<"I","n","c","\n">>,
      <<"-","\n">>,
      <<" ","\n">> }

InputFiles == UNION {[1..n -> LineChoices] : n \in 0..MaxLines}

\* Pieces a name handed directly to _clean_name_ is made of.
Fragments ==
    { <<"w","w","w",".">>, <<".","c","o","m">>, <<".","o","r","g">>,
      <<".","n","e","t">>, <<"I","n","c">>, <<"A">>, <<"w">>, <<" ">>,
      <<"-">>, <<"c","o","m">> }

RECURSIVE Concat(_)
Concat(parts) ==
    IF parts = <<>> THEN <<>> ELSE Head(parts) \o Concat(Tail(parts))

Names == {Concat(ps) : ps \in UNION {[1..n -> Fragments] : n \in 0..MaxParts}}

(***************************************************************************)
(* DuplicateFinder.__init__: {line.strip() for line in path.open()}        *)
(***************************************************************************)
load_removal_words(file) == {str_strip(file[i]) : i \in 1..Len(file)}

RemovalSets == {load_removal_words(f) : f \in RemovalFiles}

(***************************************************************************)
(* DuplicateFinder._find_duplicates_.  The defaultdict is a sequence of    *)
(* entries in insertion order, which is the order dict.values() iterates.  *)
(***************************************************************************)
\* Variant: a new key is put in front of the existing ones.
dict_append_front(d, key, company) ==
    IF \E k \in 1..Len(d) : d[k].key = key
    THEN LET k == CHOOSE k \in 1..Len(d) : d[k].key = key
         IN  [d EXCEPT ![k].values = Append(@, company)]
    ELSE <<[key |-> key, values |-> <<company>>]>> \o d

\* Variant: a company whose cleaned name is empty is skipped
\* (if company.cleaned_name: ...).
dict_append_nonempty(d, key, company) ==
    IF key = <<>> THEN d
    ELSE IF \E k \in 1..Len(d) : d[k].key = key
    THEN LET k == CHOOSE k \in 1..Len(d) : d[k].key = key
         IN  [d EXCEPT ![k].values = Append(@, company)]
    ELSE Append(d, [key |-> key, values |-> <<company>>])

\* company_dict[key].append(company)
dict_append(d, key, company) ==
    IF \E k \in 1..Len(d) : d[k].key = key
    THEN LET k == CHOOSE k \in 1..Len(d) : d[k].key = key
         IN  [d EXCEPT ![k].values = Append(@, company)]
    ELSE Append(d, [key |-> key, values |-> <<company>>])

RECURSIVE BuildDict(_, _, _)
BuildDict(cs, i, d) ==
    IF i > Len(cs) THEN d
    ELSE BuildDict(cs, i + 1, dict_append(d, cs[i].cleaned_name, cs[i]))

company_dict(cs) == BuildDict(cs, 1, <<>>)

\* if len(group) > 1
KeepGroup(group) == Len(group) > 1

_find_duplicates_(cs) ==
    LET kept == SelectSeq(company_dict(cs), LAMBDA e : KeepGroup(e.values))
    IN  [g \in 1..Len(kept) |-> kept[g].values]

(***************************************************************************)
(* DuplicateFinder._write_output_: the lazy generator                      *)
(*   for group in duplicate_groups                                         *)
(*     for company1, company2 in combinations(group, 2)                    *)
(* A position is <<g, i, j>>: group g, indices i < j; <<>> when exhausted. *)
(***************************************************************************)
\* itertools.combinations(range(n), 2): the first index pair, <<>> if none.
combinations_first(n) == IF n < 2 THEN <<>> ELSE <<1, 2>>

\* Variant: the second index restarts at the first one instead of after it.
combinations_next_restart(n, ij) ==
    IF ij[2] < n THEN <<ij[1], ij[2] + 1>>
    ELSE IF ij[1] < n - 1 THEN <<ij[1] + 1, ij[1] + 1>>
    ELSE <<>>

\* the index pair after ij, <<>> when ij was the last one.
combinations_next(n, ij) ==
    IF ij[2] < n THEN <<ij[1], ij[2] + 1>>
    ELSE IF ij[1] < n - 1 THEN <<ij[1] + 1, ij[1] + 2>>
    ELSE <<>>

\* The first pair of the first group at or after g that has one.
RECURSIVE PairsFrom(_, _)
PairsFrom(groups, g) ==
    IF g > Len(groups) THEN <<>>
    ELSE LET first == combinations_first(Len(groups[g]))
         IN  IF first = <<>> THEN PairsFrom(groups, g + 1)
             ELSE <<g, first[1], first[2]>>

gen_next(groups, p) ==
    LET nxt == combinations_next(Len(groups[p[1]]), <<p[2], p[3]>>)
    IN  IF nxt = <<>> THEN PairsFrom(groups, p[1] + 1)
        ELSE <<p[1], nxt[1], nxt[2]>>

\* Variant: the two names are written in the opposite order.
PairLineSwapped(company1, company2) ==
    company2.original_name \o <<",", " ">> \o company1.original_name \o <<"\n">>

\* f"{company1.original_name}, {company2.original_name}\n"
PairLine(company1, company2) ==
    company1.original_name \o <<",", " ">> \o company2.original_name \o <<"\n">>

(***************************************************************************)
(* The run of main(): main.py:23-31, then find_duplicates.                 *)
(***************************************************************************)
Fail(kind) ==
    /\ pc' = "failed"
    /\ err' = kind

\* main.py:27-28: if not args.input.exists(): raise FileNotFoundError
CheckInput ==
    /\ pc = "main"
    /\ IF inputExists
       THEN pc' = "init" /\ err' = err
       ELSE Fail("InputNotFound")
    /\ UNCHANGED <<inputExists, rwFile, rwPos, rwHandle, removal_words, inFile,
                   inPos, inHandle, companies, duplicates, gen, outFile,
                   outHandle, cleanVars>>

\* duplicate_finder.py:42-44: removal_words_path.open() succeeds
OpenRemovalWords ==
    /\ pc = "init"
    /\ pc' = "read_removal"
    /\ rwHandle' = "open"
    /\ UNCHANGED <<err, inputExists, rwFile, rwPos, removal_words, inFile,
                   inPos, inHandle, companies, duplicates, gen, outFile,
                   outHandle, cleanVars>>

\* removal_words_path.open() raises (file missing or unreadable)
OpenRemovalWordsFails ==
    /\ pc = "init"
    /\ Fail("RemovalWordsUnreadable")
    /\ UNCHANGED <<inputExists, rwFile, rwPos, rwHandle, removal_words, inFile,
                   inPos, inHandle, companies, duplicates, gen, outFile,
                   outHandle, cleanVars>>

\* one iteration of {line.strip() for line in removal_words_path.open()}
ReadRemovalWord ==
    /\ pc = "read_removal"
    /\ rwPos < Len(rwFile)
    /\ rwPos' = rwPos + 1
    /\ removal_words' = removal_words \cup {str_strip(rwFile[rwPos + 1])}
    /\ UNCHANGED <<pc, err, inputExists, rwFile, rwHandle, inFile, inPos,
                   inHandle, companies, duplicates, gen, outFile, outHandle,
                   cleanVars>>

\* Reading a line raises (UnicodeDecodeError, OSError).  Nothing closes the
\* handle: there is no with block and no close() at lines 43-45, and the
\* traceback keeps the comprehension's iterator alive.
ReadRemovalWordFails ==
    /\ pc = "read_removal"
    /\ rwPos < Len(rwFile)
    /\ Fail("RemovalWordsDecodingError")
    /\ UNCHANGED <<inputExists, rwFile, rwPos, rwHandle, removal_words, inFile,
                   inPos, inHandle, companies, duplicates, gen, outFile,
                   outHandle, cleanVars>>

\* The comprehension is exhausted and __init__ returns.  The code never
\* closes the handle; whether it is closed by now is up to the interpreter
\* (reference counting closes it when the iterator is dropped, a tracing
\* collector at some later time or never).
FinishInit ==
    /\ pc = "read_removal"
    /\ rwPos = Len(rwFile)
    /\ pc' = "find"
    /\ rwHandle' \in {"open", "closed"}
    /\ UNCHANGED <<err, inputExists, rwFile, rwPos, removal_words, inFile,
                   inPos, inHandle, companies, duplicates, gen, outFile,
                   outHandle, cleanVars>>

\* The interpreter finalizes the unreferenced removal-words file object.
FinalizeRemovalHandle ==
    /\ pc \notin {"main", "init", "read_removal", "idle"}
    /\ rwHandle = "open"
    /\ rwHandle' = "closed"
    /\ UNCHANGED <<pc, err, inputExists, rwFile, rwPos, removal_words, inFile,
                   inPos, inHandle, companies, duplicates, gen, outFile,
                   outHandle, cleanVars>>

\* Variant: the output file is opened for writing before the input is read.
OpenInputAfterOutput ==
    /\ pc = "find"
    /\ pc' = "read_companies"
    /\ inHandle' = "open"
    /\ outHandle' = "open"
    /\ outFile' = <<>>
    /\ UNCHANGED <<err, inputExists, rwFile, rwPos, rwHandle, removal_words,
                   inFile, inPos, companies, duplicates, gen, cleanVars>>

\* duplicate_finder.py:71: open(input_path, "r", encoding="utf-8") succeeds
OpenInput ==
    /\ pc = "find"
    /\ pc' = "read_companies"
    /\ inHandle' = "open"
    /\ UNCHANGED <<err, inputExists, rwFile, rwPos, rwHandle, removal_words,
                   inFile, inPos, companies, duplicates, gen, outFile,
                   outHandle, cleanVars>>

\* open(input_path) raises (permission denied, removed since the check)
OpenInputFails ==
    /\ pc = "find"
    /\ Fail("InputUnreadable")
    /\ UNCHANGED <<inputExists, rwFile, rwPos, rwHandle, removal_words, inFile,
                   inPos, inHandle, companies, duplicates, gen, outFile,
                   outHandle, cleanVars>>

\* Variant: the line is tested and stored as read, without strip().
read_company_raw(cs, line, words) ==
    IF line # <<>>
    THEN Append(cs, Company(line, _clean_name_(line, words)))
    ELSE cs

\* duplicate_finder.py:72-76, one iteration of the list comprehension:
\*   Company(name, self._clean_name_(name)) for line in f if (name := line.strip())
read_company(cs, line, words) ==
    LET stripped == str_strip(line)
    IN  IF stripped # <<>>
        THEN Append(cs, Company(stripped, _clean_name_(stripped, words)))
        ELSE cs

ReadCompany ==
    /\ pc = "read_companies"
    /\ inPos < Len(inFile)
    /\ inPos' = inPos + 1
    /\ companies' = read_company(companies, inFile[inPos + 1], removal_words)
    /\ UNCHANGED <<pc, err, inputExists, rwFile, rwPos, rwHandle, removal_words,
                   inFile, inHandle, duplicates, gen, outFile, outHandle,
                   cleanVars>>

\* Reading a line raises; the with block closes the handle (line 71).
ReadCompanyFails ==
    /\ pc = "read_companies"
    /\ inPos < Len(inFile)
    /\ Fail("InputDecodingError")
    /\ inHandle' = "closed"
    /\ UNCHANGED <<inputExists, rwFile, rwPos, rwHandle, removal_words, inFile,
                   inPos, companies, duplicates, gen, outFile, outHandle,
                   cleanVars>>

\* End of file: the with block closes the handle, _read_companies_ returns.
CloseInput ==
    /\ pc = "read_companies"
    /\ inPos = Len(inFile)
    /\ pc' = "group"
    /\ inHandle' = "closed"
    /\ UNCHANGED <<err, inputExists, rwFile, rwPos, rwHandle, removal_words,
                   inFile, inPos, companies, duplicates, gen, outFile,
                   outHandle, cleanVars>>

\* duplicate_finder.py:56, 90-94
FindDuplicates ==
    /\ pc = "group"
    /\ pc' = "write"
    /\ duplicates' = _find_duplicates_(companies)
    /\ UNCHANGED <<err, inputExists, rwFile, rwPos, rwHandle, removal_words,
                   inFile, inPos, inHandle, companies, gen, outFile, outHandle,
                   cleanVars>>

\* Variant: the file is opened in append mode and keeps what it held.
OpenOutputAppend ==
    /\ pc = "write"
    /\ pc' = "write_pairs"
    /\ outHandle' = "open"
    /\ outFile' = outFile
    /\ gen' = PairsFrom(duplicates, 1)
    /\ UNCHANGED <<err, inputExists, rwFile, rwPos, rwHandle, removal_words,
                   inFile, inPos, inHandle, companies, duplicates, cleanVars>>

\* duplicate_finder.py:110-115: open(self.output_path, "w") truncates the
\* file; the generator is created and nothing of it is computed yet.
OpenOutput ==
    /\ pc = "write"
    /\ pc' = "write_pairs"
    /\ outHandle' = "open"
    /\ outFile' = <<>>
    /\ gen' = PairsFrom(duplicates, 1)
    /\ UNCHANGED <<err, inputExists, rwFile, rwPos, rwHandle, removal_words,
                   inFile, inPos, inHandle, companies, duplicates, cleanVars>>

\* open(self.output_path, "w") raises (directory missing, permission denied)
OpenOutputFails ==
    /\ pc = "write"
    /\ Fail("OutputUnwritable")
    /\ UNCHANGED <<inputExists, rwFile, rwPos, rwHandle, removal_words, inFile,
                   inPos, inHandle, companies, duplicates, gen, outFile,
                   outHandle, cleanVars>>

\* duplicate_finder.py:116: f.writelines takes the next pair and writes it
WritePair ==
    /\ pc = "write_pairs"
    /\ gen # <<>>
    /\ outFile' = Append(outFile, PairLine(duplicates[gen[1]][gen[2]],
                                           duplicates[gen[1]][gen[3]]))
    /\ gen' = gen_next(duplicates, gen)
    /\ UNCHANGED <<pc, err, inputExists, rwFile, rwPos, rwHandle, removal_words,
                   inFile, inPos, inHandle, companies, duplicates, outHandle,
                   cleanVars>>

\* A write (or the flush on close) raises; the with block closes the handle
\* and the error propagates.  What was written stays in the file.
WritePairFails ==
    /\ pc = "write_pairs"
    /\ Fail("OutputWriteError")
    /\ outHandle' = "closed"
    /\ UNCHANGED <<inputExists, rwFile, rwPos, rwHandle, removal_words, inFile,
                   inPos, inHandle, companies, duplicates, gen, outFile,
                   cleanVars>>

\* The generator is exhausted: the with block closes the file, main returns.
CloseOutput ==
    /\ pc = "write_pairs"
    /\ gen = <<>>
    /\ pc' = "done"
    /\ outHandle' = "closed"
    /\ UNCHANGED <<err, inputExists, rwFile, rwPos, rwHandle, removal_words,
                   inFile, inPos, inHandle, companies, duplicates, gen, outFile,
                   cleanVars>>

Init ==
    /\ pc = "main"
    /\ err = "none"
    /\ inputExists \in BOOLEAN
    /\ rwFile \in RemovalFiles
    /\ rwPos = 0
    /\ rwHandle = "none"
    /\ removal_words = {}
    /\ inFile \in (IF inputExists THEN InputFiles ELSE {<<>>})
    /\ inPos = 0
    /\ inHandle = "none"
    /\ companies = <<>>
    /\ duplicates = <<>>
    /\ gen = <<>>
    /\ outFile = PreviousOutput
    /\ outHandle = "none"
    /\ name = <<>>
    /\ cleaned = <<>>
    /\ calls = 0

Next ==
    \/ CheckInput
    \/ OpenRemovalWords
    \/ OpenRemovalWordsFails
    \/ ReadRemovalWord
    \/ ReadRemovalWordFails
    \/ FinishInit
    \/ FinalizeRemovalHandle
    \/ OpenInput
    \/ OpenInputFails
    \/ ReadCompany
    \/ ReadCompanyFails
    \/ CloseInput
    \/ FindDuplicates
    \/ OpenOutput
    \/ OpenOutputFails
    \/ WritePair
    \/ WritePairFails
    \/ CloseOutput

Spec == Init /\ [][Next]_vars

(***************************************************************************)
(* Direct calls of _clean_name_ on a DuplicateFinder whose removal words   *)
(* were loaded from one of the removal-words files: first on a name, then  *)
(* on the value the first call returned.                                   *)
(***************************************************************************)
CallCleanName ==
    /\ pc = "idle"
    /\ calls = 0
    /\ cleaned' = _clean_name_(name, removal_words)
    /\ calls' = 1
    /\ UNCHANGED <<pipelineVars, removal_words, name>>

CallCleanNameAgain ==
    /\ pc = "idle"
    /\ calls = 1
    /\ name' = cleaned
    /\ cleaned' = _clean_name_(cleaned, removal_words)
    /\ calls' = 2
    /\ UNCHANGED <<pipelineVars, removal_words>>

InitClean ==
    /\ pc = "idle"
    /\ err = "none"
    /\ inputExists = TRUE
    /\ rwFile \in RemovalFiles
    /\ rwPos = Len(rwFile)
    /\ rwHandle = "closed"
    /\ removal_words = load_removal_words(rwFile)
    /\ inFile = <<>>
    /\ inPos = 0
    /\ inHandle = "none"
    /\ companies = <<>>
    /\ duplicates = <<>>
    /\ gen = <<>>
    /\ outFile = PreviousOutput
    /\ outHandle = "none"
    /\ name \in Names
    /\ cleaned = <<>>
    /\ calls = 0

NextClean ==
    \/ CallCleanName
    \/ CallCleanNameAgain

SpecClean == InitClean /\ [][NextClean]_vars

(***************************************************************************)
(* Properties.  They are stated over positions of the strings and of the   *)
(* input, not by running the operators above a second time.                *)
(***************************************************************************)
\* The k-th smallest element of a set of integers.
Kth(S, k) == CHOOSE i \in S : Cardinality({j \in S : j <= i}) = k

\* The characters of s at the positions of K, in order.
KeepAt(s, K) == [k \in 1..Cardinality(K) |-> s[Kth(K, k)]]

WwwAt(s, p) ==
    /\ p >= 1
    /\ p + 3 <= Len(s)
    /\ s[p] = "w" /\ s[p + 1] = "w" /\ s[p + 2] = "w" /\ s[p + 3] = "."

DotSuffixAt(s, p) ==
    /\ p >= 1
    /\ p + 3 <= Len(s)
    /\ s[p] = "."
    /\ <<s[p + 1], s[p + 2], s[p + 3]>>
          \in {<<"c","o","m">>, <<"o","r","g">>, <<"n","e","t">>}

\* The occurrences one left-to-right pass deletes: every "www.", and every
\* ".com", ".org", ".net" whose dot is not the dot of a "www." (that dot is
\* consumed with the "www." before the pass reaches it).
UrlOccurrence(s, p) ==
    \/ WwwAt(s, p)
    \/ DotSuffixAt(s, p) /\ ~WwwAt(s, p - 3)

UrlDeleted(s) ==
    {q \in 1..Len(s) : \E p \in (q - 3)..q : UrlOccurrence(s, p)}

TokenStarts(s) ==
    {i \in 1..Len(s) : s[i] \notin WhiteSpace /\ (i = 1 \/ s[i - 1] \in WhiteSpace)}

TokenEnd(s, i) ==
    CHOOSE j \in i..Len(s) :
        /\ \A k \in i..j : s[k] \notin WhiteSpace
        /\ j = Len(s) \/ s[j + 1] \in WhiteSpace

Token(s, i) == SubSeq(s, i, TokenEnd(s, i))

\* Steps 1 to 6 of the normalization, on positions.
Normalized(n, words) ==
    LET low   == [i \in 1..Len(n) |-> lower_char(n[i])]
        nourl == KeepAt(low, (1..Len(low)) \ UrlDeleted(low))
        plain == [i \in 1..Len(nourl) |->
                    IF nourl[i] \in WordChars THEN nourl[i] ELSE " "]
        kept  == {i \in TokenStarts(plain) : Token(plain, i) \notin words}
        inTok == {q \in 1..Len(plain) :
                    \E i \in kept : i <= q /\ q <= TokenEnd(plain, i)}
        gaps  == {TokenEnd(plain, i) + 1 : i \in {i \in kept : \E l \in kept : l > i}}
    IN  KeepAt(plain, inTok \cup gaps)

\* A removal word sits inside a longer token of the result.
SubstringOnly(s, words) ==
    \E i \in TokenStarts(s) : \E w \in words :
        /\ w # <<>>
        /\ Len(w) < Len(Token(s, i))
        /\ \E k \in 0..(Len(Token(s, i)) - Len(w)) :
              SubSeq(Token(s, i), k + 1, k + Len(w)) = w

\* C1: _clean_name_(name) is the name lowercased, with every occurrence of
\* "www.", ".com", ".org", ".net" deleted in one left-to-right pass, every
\* character that is neither a word character nor whitespace replaced by a
\* space, split on whitespace, the tokens that are removal words dropped
\* (whole tokens only), and the rest joined by single spaces.
C1_CleanNameSteps ==
    calls = 1 => cleaned = Normalized(name, removal_words)

\* C1 witness: a call whose name holds a URL occurrence and whose result
\* keeps a token that only contains a removal word.
C1_Witness ==
    /\ calls = 1
    /\ UrlDeleted(str_lower(name)) # {}
    /\ SubstringOnly(cleaned, removal_words)

\* C2: _clean_name_ applied to a value it returned returns that value.
C2_Idempotent ==
    calls = 2 => cleaned = name

\* C2 witness: the second call was made on a result of two tokens, obtained
\* with a non-empty removal-word set.
C2_Witness ==
    /\ calls = 2
    /\ removal_words # {}
    /\ Cardinality(TokenStarts(cleaned)) >= 2

(***************************************************************************)
(* Properties of the pipeline, over positions of the input.                *)
(***************************************************************************)
\* The records at the positions of K, in input order.
RecordsAt(cs, K) == [k \in 1..Cardinality(K) |-> cs[Kth(K, k)]]

\* Positions of the records that have the canonical name of record i.
SameKey(cs, i) ==
    {j \in 1..Len(cs) : cs[j].cleaned_name = cs[i].cleaned_name}

\* First occurrences of the canonical names that two or more records have.
Leaders(cs) ==
    {i \in 1..Len(cs) :
        /\ Cardinality(SameKey(cs, i)) >= 2
        /\ \A j \in SameKey(cs, i) : i <= j}

\* "<original1>, <original2>" on a line of its own
Rendered(a, b) ==
    a.original_name \o <<",", " ">> \o b.original_name \o <<"\n">>

\* _find_duplicates_ has returned.
Grouped ==
    \/ pc \in {"write", "write_pairs", "done"}
    \/ pc = "failed" /\ err \in {"OutputUnwritable", "OutputWriteError"}

\* C3: the groups are in the order in which each canonical name first occurs
\* in the input, and the members of a group are in input order.
C3_GroupOrder ==
    Grouped =>
        /\ Len(duplicates) = Cardinality(Leaders(companies))
        /\ \A g \in 1..Len(duplicates) :
              duplicates[g] =
                  RecordsAt(companies, SameKey(companies, Kth(Leaders(companies), g)))

\* C3 witness: two groups whose members interleave in the input, the first
\* one having the larger key (the empty key sorts first).
C3_Witness ==
    /\ pc = "write"
    /\ Len(duplicates) = 2
    /\ duplicates[1][1].cleaned_name # <<>>
    /\ duplicates[2][1].cleaned_name = <<>>
    /\ \E j \in SameKey(companies, Kth(Leaders(companies), 1)) :
          j > Kth(Leaders(companies), 2)

\* C4: every line of the output pairs two records at different input
\* positions that have the same canonical name, and a record whose canonical
\* name no other record has is in no line.
C4_PairsWithinGroups ==
    outFile # PreviousOutput =>
        \A l \in 1..Len(outFile) :
            /\ \E i, j \in 1..Len(companies) :
                  /\ i # j
                  /\ companies[i].cleaned_name = companies[j].cleaned_name
                  /\ outFile[l] = Rendered(companies[i], companies[j])
            /\ \A i \in 1..Len(companies) :
                  Cardinality(SameKey(companies, i)) = 1 =>
                      \A k \in 1..Len(companies) :
                          /\ outFile[l] # Rendered(companies[i], companies[k])
                          /\ outFile[l] # Rendered(companies[k], companies[i])

\* C4 witness: a finished run that wrote pairs of a group of three while a
\* record with a canonical name of its own was in the input.
C4_Witness ==
    /\ pc = "done"
    /\ Len(outFile) >= 3
    /\ \E i \in 1..Len(companies) : Cardinality(SameKey(companies, i)) = 1

PairCount(n) == (n * (n - 1)) \div 2

\* Lines written for the groups before group g.
RECURSIVE LinesBefore(_, _)
LinesBefore(groups, g) ==
    IF g <= 1 THEN 0
    ELSE LinesBefore(groups, g - 1) + PairCount(Len(groups[g - 1]))

\* The line of the pair i < j of group g, of n members: combination order.
LineOf(groups, g, i, j) ==
    LinesBefore(groups, g)
        + (i - 1) * Len(groups[g]) - (i * (i - 1)) \div 2 + (j - i)

PairsOf(groups) ==
    {t \in (1..Len(groups)) \X (1..MaxLines + 1) \X (1..MaxLines + 1) :
        t[2] < t[3] /\ t[3] <= Len(groups[t[1]])}

\* The complete output for the groups.
ExpectedLines(groups) ==
    [l \in 1..LinesBefore(groups, Len(groups) + 1) |->
        LET t == CHOOSE t \in PairsOf(groups) : LineOf(groups, t[1], t[2], t[3]) = l
        IN  Rendered(groups[t[1]][t[2]], groups[t[1]][t[3]])]

\* C5: a group of n members gets exactly n*(n-1)/2 lines, one for each index
\* pair i < j in combination order, rendered "<original_i>, <original_j>",
\* and the groups are written in the order of the list of groups.
C5_AllPairsInOrder ==
    pc = "done" =>
        /\ Len(outFile) = LinesBefore(duplicates, Len(duplicates) + 1)
        /\ \A g \in 1..Len(duplicates) :
              \A i, j \in 1..Len(duplicates[g]) :
                  i < j =>
                      outFile[LineOf(duplicates, g, i, j)]
                          = Rendered(duplicates[g][i], duplicates[g][j])

\* C5 witness: a finished run with a group of three or more members that are
\* not all the same name.
C5_Witness ==
    /\ pc = "done"
    /\ \E g \in 1..Len(duplicates) :
          /\ Len(duplicates[g]) >= 3
          /\ duplicates[g][1].original_name # duplicates[g][2].original_name

\* line.strip(), on positions
Trimmed(line) ==
    LET solid == {i \in 1..Len(line) : line[i] \notin WhiteSpace}
    IN  IF solid = {} THEN <<>>
        ELSE SubSeq(line, CHOOSE i \in solid : \A j \in solid : i <= j,
                          CHOOSE i \in solid : \A j \in solid : j <= i)

\* Lines read so far that are not empty after trimming.
NonBlank == {i \in 1..inPos : Trimmed(inFile[i]) # <<>>}

\* C6: _read_companies_ makes one record for each line that is not empty
\* after trimming, in input order, with the trimmed line as original_name and
\* _clean_name_ of it as cleaned_name; other lines make no record.  Stated
\* after each line read and when _read_companies_ returns.
C6_OneRecordPerLine ==
    pc \in {"read_companies", "group"} =>
        /\ Len(companies) = Cardinality(NonBlank)
        /\ \A k \in 1..Len(companies) :
              LET original == Trimmed(inFile[Kth(NonBlank, k)])
              IN  companies[k] =
                      [original_name |-> original,
                       cleaned_name |-> _clean_name_(original, removal_words)]

\* C6 witness: a finished run whose input had a blank line between two names
\* with the same canonical name, one of them trimmed, and wrote their pair.
C6_Witness ==
    /\ pc = "done"
    /\ Len(inFile) = 3
    /\ Trimmed(inFile[2]) = <<>>
    /\ Len(companies) = 2
    /\ companies[1].cleaned_name = companies[2].cleaned_name
    /\ Len(inFile[1]) > Len(companies[1].original_name) + 1
    /\ outFile = <<Rendered(companies[1], companies[2])>>

IsPrefix(a, b) == Len(a) <= Len(b) /\ a = SubSeq(b, 1, Len(a))

\* C7 as stated: a run that ended in an error left the output file untouched
\* or complete.
C7_NoPartialOutput ==
    pc = "failed" =>
        \/ outFile = PreviousOutput
        \/ outFile = ExpectedLines(duplicates)

\* C7 amended: an error ends the run; an error raised before the output file
\* is opened leaves the file untouched, an error raised while the pairs are
\* written leaves in it a prefix of the pair lines, which may be empty or a
\* proper one.
C7_PrefixOnFailure ==
    pc = "failed" =>
        /\ ~ENABLED (Next /\ pc' # pc)
        /\ IF err = "OutputWriteError"
           THEN IsPrefix(outFile, ExpectedLines(duplicates))
           ELSE outFile = PreviousOutput

\* C7 witness: the write failed with some of the pair lines written.
C7_Witness ==
    /\ pc = "failed"
    /\ err = "OutputWriteError"
    /\ 0 < Len(outFile)
    /\ Len(outFile) < Len(ExpectedLines(duplicates))

\* C8 as stated: once a file operation has returned or raised, the handle it
\* opened is closed.
C8_HandlesClosedOnExit ==
    /\ pc \notin {"main", "init", "read_removal"} => rwHandle # "open"
    /\ pc # "read_companies" => inHandle # "open"
    /\ pc # "write_pairs" => outHandle # "open"

\* C9: two or more names whose canonical name is empty form one group and
\* every pair of them is written.
C9_EmptyKeyGroup ==
    pc = "done" =>
        LET empty == {i \in 1..Len(companies) : companies[i].cleaned_name = <<>>}
        IN  Cardinality(empty) >= 2 =>
                /\ \E g \in 1..Len(duplicates) :
                      duplicates[g] = RecordsAt(companies, empty)
                /\ \A i, j \in empty :
                      i < j => \E l \in 1..Len(outFile) :
                                   outFile[l] = Rendered(companies[i], companies[j])

\* C9 witness: a finished run with a name made of punctuation only and a name
\* made of a removal word only.
C9_Witness ==
    /\ pc = "done"
    /\ \E i, j \in 1..Len(companies) :
          /\ companies[i].cleaned_name = <<>>
          /\ companies[j].cleaned_name = <<>>
          /\ companies[i].original_name = <<"-">>
          /\ str_lower(companies[j].original_name) \in removal_words

\* The run failed before _write_output_ was entered.
FailedBeforeWrite ==
    /\ pc = "failed"
    /\ err \in {"InputNotFound", "RemovalWordsUnreadable",
                "RemovalWordsDecodingError", "InputUnreadable",
                "InputDecodingError"}

\* C10: a run that fails before the write phase has not opened or changed the
\* output file, and the output file is only opened once the whole input has
\* been read and its handle closed.
C10_OutputUntouchedBeforeWrite ==
    /\ FailedBeforeWrite => outFile = PreviousOutput /\ outHandle = "none"
    /\ outHandle # "none" =>
          /\ inPos = Len(inFile)
          /\ inHandle = "closed"
          /\ Grouped

\* C10 witness: reading the input failed part-way, after records were built.
C10_Witness ==
    /\ pc = "failed"
    /\ err = "InputDecodingError"
    /\ companies # <<>>
    /\ inPos < Len(inFile)

====
